---- MODULE Spec2Model ----
(***************************************************************************)
(* Model of the S3 Object Lambda image resizer (go/main.go): one           *)
(* invocation of handler, from the request URL to the value returned to    *)
(* the Lambda runtime.  The S3 object, the encoders' output sizes and the  *)
(* answers of WriteGetObjectResponse are chosen by the environment.        *)
(***************************************************************************)
EXTENDS Integers, Sequences, FiniteSets, TLC

\* ------------------------------------------------------------- constants

\* const maxBytes = 10 * 1024 * 1024
maxBytes == 10485760

\* the floor of the downscale loop: if nw < 32 || nh < 32
MinDim == 32

\* var allowedWidths = map[int]bool{240: true, 300: true, ...}
allowedWidths == {240, 300, 460, 700, 1040}

\* the quality list written in ascending order
qualitiesAscending == <<60, 65, 70, 75, 80, 85, 90, 95>>

\* qualities := []int{95, 90, 85, 80, 75, 70, 65, 60}
qualities == <<95, 90, 85, 80, 75, 70, 65, 60>>

\* levels := []png.CompressionLevel{png.DefaultCompression, png.BestCompression}
levels == <<"DefaultCompression", "BestCompression">>

\* the formats image.Decode knows: the blank imports of image/jpeg, image/png
RegisteredFormats == {"jpeg", "png"}

\* http status codes used by handler
StatusOK == 200
StatusBadRequest == 400
StatusNotFound == 404
StatusUnsupportedMediaType == 415
StatusInternalServerError == 500
StatusBadGateway == 502

\* --------------------------------------------------------------- bounds

\* source images of every size 1..MaxTinyDim, next to the sampled larger sizes
MaxTinyDim == 2

\* encoded sizes range over maxBytes - SizeSlack .. maxBytes + SizeSlack
SizeSlack == 1

\* ------------------------------------------------------ strings, numbers

\* A query value or a path is a sequence of one-character strings.
DigitVal ==
  [c \in {"0", "1", "2", "3", "4", "5", "6", "7", "8", "9"} |->
     CASE c = "0" -> 0 [] c = "1" -> 1 [] c = "2" -> 2 [] c = "3" -> 3
       [] c = "4" -> 4 [] c = "5" -> 5 [] c = "6" -> 6 [] c = "7" -> 7
       [] c = "8" -> 8 [] c = "9" -> 9]

RECURSIVE DigitsValue(_)
DigitsValue(s) ==
  IF s = <<>> THEN 0
  ELSE 10 * DigitsValue(SubSeq(s, 1, Len(s) - 1)) + DigitVal[s[Len(s)]]

\* the digits of 2^63 - 1 and of 2^63, the largest magnitudes of an int
MaxIntDigits ==
  <<"9", "2", "2", "3", "3", "7", "2", "0", "3", "6",
    "8", "5", "4", "7", "7", "5", "8", "0", "7">>
MinIntDigits ==
  <<"9", "2", "2", "3", "3", "7", "2", "0", "3", "6",
    "8", "5", "4", "7", "7", "5", "8", "0", "8">>

\* a digit string without its leading zeros
RECURSIVE StripZeros(_)
StripZeros(s) ==
  IF Len(s) > 0 /\ s[1] = "0" THEN StripZeros(Tail(s)) ELSE s

\* a > b for digit strings of the same length
RECURSIVE DigitsGreater(_, _)
DigitsGreater(a, b) ==
  IF a = <<>> THEN FALSE
  ELSE IF a[1] # b[1] THEN DigitVal[a[1]] > DigitVal[b[1]]
  ELSE DigitsGreater(Tail(a), Tail(b))

\* the number written by the digits s is above the one written by limit
Exceeds(s, limit) ==
  LET d == StripZeros(s)
  IN  Len(d) > Len(limit) \/ (Len(d) = Len(limit) /\ DigitsGreater(d, limit))

\* the digits of 2^64 - 1, the largest uint64
MaxUintDigits ==
  <<"1", "8", "4", "4", "6", "7", "4", "4", "0", "7",
    "3", "7", "0", "9", "5", "5", "1", "6", "1", "5">>

\* the bytes of s before its first byte that is not a decimal digit
RECURSIVE LeadingDigits(_)
LeadingDigits(s) ==
  IF Len(s) > 0 /\ s[1] \in DOMAIN DigitVal
  THEN <<s[1]>> \o LeadingDigits(Tail(s))
  ELSE <<>>

\* strconv.Atoi's error, "" for nil.  After an optional sign ParseUint reads
\* the bytes left to right: a byte that is not a digit is a syntax error, a
\* digit that takes the number above 2^64 - 1 is a range error, whichever
\* comes first; an empty body is a syntax error; a number of digits only that
\* is outside the 64-bit int is a range error.
AtoiErr(s) ==
  LET signed == Len(s) > 0 /\ s[1] \in {"+", "-"}
      neg    == signed /\ s[1] = "-"
      body   == IF signed THEN Tail(s) ELSE s
      digits == LeadingDigits(body)
      limit  == IF neg THEN MinIntDigits ELSE MaxIntDigits
  IN  IF Exceeds(digits, MaxUintDigits) THEN "strconv.Atoi: value out of range"
      ELSE IF Len(body) = 0 \/ digits # body THEN "strconv.Atoi: syntax"
      ELSE IF Exceeds(body, limit) THEN "strconv.Atoi: value out of range"
      ELSE ""

\* strconv.Atoi: the value is 0 with a syntax error and the nearest int with
\* a range error.
Atoi(s) ==
  LET neg   == Len(s) > 0 /\ s[1] = "-"
      body  == IF Len(s) > 0 /\ s[1] \in {"+", "-"} THEN Tail(s) ELSE s
      e     == AtoiErr(s)
      mag   == IF e = "strconv.Atoi: syntax" THEN 0
               ELSE IF e = "strconv.Atoi: value out of range"
               THEN DigitsValue(IF neg THEN MinIntDigits ELSE MaxIntDigits)
               ELSE DigitsValue(body)
  IN  [val |-> IF neg THEN 0 - mag ELSE mag, err |-> e]

\* strings.TrimPrefix(s, "/")
TrimPrefix(s) ==
  IF Len(s) > 0 /\ s[1] = "/" THEN Tail(s) ELSE s

\* strings.ToLower on the format names that occur
ToLower(f) ==
  CASE f = "JPEG" -> "jpeg"
    [] f = "JPG"  -> "jpg"
    [] f = "PNG"  -> "png"
    [] f = "GIF"  -> "gif"
    [] OTHER      -> f

Min(a, b) == IF a < b THEN a ELSE b

RECURSIVE Pow2(_)
Pow2(n) == IF n <= 0 THEN 1 ELSE 2 * Pow2(n - 1)

\* 2^s mod m
RECURSIVE Pow2Mod(_, _)
Pow2Mod(s, m) == IF s = 0 THEN 1 % m ELSE (2 * Pow2Mod(s - 1, m)) % m

\* floor(log2(k)) for k >= 1
RECURSIVE Log2Floor(_)
Log2Floor(k) == IF k < 2 THEN 0 ELSE 1 + Log2Floor(k \div 2)

\* -floor(log2(a/b)) for 0 < a < b: the least n >= 1 with a * 2^n >= b
RECURSIVE NegLog2Ratio(_, _)
NegLog2Ratio(a, b) == IF 2 * a >= b THEN 1 ELSE 1 + NegLog2Ratio(2 * a, b)

\* round(n / d) for n >= 0, d > 0, halves away from zero: math.Round on an
\* exact quotient
RoundDiv(n, d) == (2 * n + d) \div (2 * d)

\* l <= b * 2^sh for sh >= 0, halving l (rounded up) instead of doubling b
RECURSIVE LeqShifted(_, _, _)
LeqShifted(l, b, sh) ==
  IF sh = 0 \/ l <= b THEN l <= b ELSE LeqShifted((l + 1) \div 2, b, sh - 1)

\* int(math.Round(float64(h) * scale)) with scale := float64(a) / float64(b),
\* for integers h > 0 and 0 < a < b with h * a < 2^51, in IEEE-754 binary64
\* arithmetic (beyond 2^51 the rounding errors also move quotients that are
\* no exact halves, which this definition does not follow).
\* The quotient a/b is rounded to 53 bits, then the product is rounded again;
\* the two roundings change the result only when h*a/b is exactly k + 1/2:
\* the product is then k + 1/2 + h*delta/(b*2^s), where delta/(b*2^s) is the
\* rounding error of the quotient, and math.Round sees a value below k + 1/2
\* when the quotient was rounded down by more than half a unit in the last
\* place of the product.
ScaleRound(h, a, b) ==
  LET n == 2 * h * a
  IN  IF n % b # 0 \/ (n \div b) % 2 = 0
      THEN RoundDiv(h * a, b)
      ELSE LET k   == ((n \div b) - 1) \div 2
               er  == NegLog2Ratio(a, b)
               rho == (a * Pow2Mod(52 + er, b)) % b
               eb  == IF k = 0 THEN 0 - 2 ELSE Log2Floor(k)
               sh  == eb + er
               lhs == 2 * h * rho
           IN  IF rho = 0 \/ 2 * rho > b THEN k + 1
               ELSE IF sh < 0 THEN (IF lhs * Pow2(0 - sh) <= b THEN k + 1 ELSE k)
               ELSE IF LeqShifted(lhs, b, sh) THEN k + 1 ELSE k

\* a shrink factor of 0.95 in place of 0.9
ShrinkDimSlow(d) == (95 * d) \div 100

\* int(float64(d) * 0.9): the binary64 nearest to 0.9 lies above 0.9, so the
\* product never falls below 9d/10 and truncation gives floor(9d/10)
ShrinkDim(d) == (9 * d) \div 10


\* ------------------------------------------------------ dimension planner

\* the default of the height left out
DefaultHeightKeepsZero(h, width) == h

\* height, _ := strconv.Atoi(query.Get("h")); if height == 0 { height = width }
DefaultHeight(h, width) == IF h = 0 THEN width ELSE h

\* if targetW > srcW { ... }: the width clamp, with the height rescaled by
\* targetW/width (or set to srcH when height <= 0)
ClampWidth(width, height, srcW, srcH) ==
  IF width > srcW
  THEN <<srcW, IF height > 0 THEN ScaleRound(height, srcW, width) ELSE srcH>>
  ELSE <<width, height>>

\* the height clamp left out
ClampHeightMissing(tw, th, height, srcH) == <<tw, th>>

\* if targetH > srcH { ... }: the height clamp, with the width rescaled by
\* srcH/height, where height is the requested height
ClampHeight(tw, th, height, srcH) ==
  IF th > srcH
  THEN <<ScaleRound(tw, srcH, height), srcH>>
  ELSE <<tw, th>>

\* lines 107-130 of handler: <<targetW, targetH>>
PlanGeometry(width, height, srcW, srcH) ==
  LET c == ClampWidth(width, height, srcW, srcH)
  IN  ClampHeight(c[1], c[2], height, srcH)

\* the width checked for syntax only, not against allowedWidths
WidthRejectedSyntaxOnly(w) == w.err # ""

\* if err != nil || !allowedWidths[width]
WidthRejected(w) == w.err # "" \/ w.val \notin allowedWidths

\* if targetW <= 0 || targetH <= 0
InvalidSize(tw, th) == tw <= 0 \/ th <= 0

\* ------------------------------------------------------------- encoders

\* encodeWithConstraints: the switch on strings.ToLower(format)
EncoderOf(f) ==
  CASE ToLower(f) \in {"jpeg", "jpg"} -> "jpeg"
    [] ToLower(f) = "png"             -> "png"
    [] OTHER                          -> "unsupported"

\* the parameter list an encoder walks through
Ladder(enc) == IF enc = "jpeg" THEN qualities ELSE levels

\* both encoders labelling their bytes image/jpeg
ContentTypeAlwaysJPEG(enc) == "image/jpeg"

\* the content type an encoder returns with its bytes
ContentTypeOf(enc) == IF enc = "jpeg" THEN "image/jpeg" ELSE "image/png"

\* the budget test off by one
FitsOffByOne(size) == size <= maxBytes + 1

\* if buf.Len() <= maxBytes
Fits(size) == size <= maxBytes

\* the floor test failing only when both dimensions are below the floor
BelowFloorBoth(nw, nh) == nw < MinDim /\ nh < MinDim

\* if nw < 32 || nh < 32
BelowFloor(nw, nh) == nw < MinDim \/ nh < MinDim

\* ------------------------------------------------------------- S3 fetch

Nil == 0 - 1

\* fetchOriginalFromS3 on the answer g of GetObject: the error it returns
\* ("" for none).  The body is read through an io.LimitedReader of
\* maxBytes + 1 bytes.
FetchError(g) ==
  LET read == Min(g.bodyLen, maxBytes + 1)
  IN  IF g.err # "" THEN g.err
      ELSE IF g.contentLength # Nil /\ g.contentLength > maxBytes
           THEN "source object too large (>10MB)"
      ELSE IF g.readErr THEN "read error"
      ELSE IF read > maxBytes THEN "source object too large (>10MB)"
      ELSE ""

\* every fetch error answered with StatusBadGateway
FetchStatusAlwaysBadGateway(err) == StatusBadGateway

\* errors.As(err, &nsk) ? StatusNotFound : StatusBadGateway
FetchStatus(err) == IF err = "NoSuchKey" THEN StatusNotFound ELSE StatusBadGateway

\* image.Decode: fails on bytes of no registered format and on corrupt data
DecodeFails(o) == o.format \notin RegisteredFormats \/ o.corrupt

\* image.Decode's format name: the name of the registered format the bytes
\* begin as, whether or not its decoder succeeds, "" when none matches
DecodeFormat(o) == IF o.format \in RegisteredFormats THEN o.format ELSE ""

\* image.Decode's error, "" for nil: image.ErrFormat when no registered format
\* matches, the decoder's own error for corrupt data of a registered format
DecodeError(o) ==
  IF o.format \notin RegisteredFormats THEN "image: unknown format"
  ELSE IF o.corrupt THEN "decoder error"
  ELSE ""


\* ------------------------------------------------------------- inputs

\* values of the query parameter w ("" when absent)
WValues ==
  { <<>>, <<"a">>, <<"9", "9", "9">>, <<"-", "2", "4", "0">>,
    <<"2", "4", "0">>, <<"3", "0", "0">>, <<"4", "6", "0">>,
    <<"7", "0", "0">>, <<"1", "0", "4", "0">> }

\* values of the query parameter h ("" when absent)
HValues ==
  { <<>>, <<"0">>, <<"x">>, <<"-", "5">>, <<"1">>, <<"1", "5", "0">>,
    <<"6", "0", "0">>, <<"2", "0", "0", "0">> }

\* request paths
Paths == { <<>>, <<"/">>, <<"/", "k">>, <<"k">> }

\* the request URL: whether url.Parse accepts it, its path and its query
URLs ==
  { [parseErr |-> TRUE, path |-> <<>>, w |-> <<>>, h |-> <<>>] }
  \cup [parseErr : {FALSE}, path : Paths, w : WValues, h : HValues]

\* sizes of the stored images
SrcWidths == (1..MaxTinyDim) \cup {11, 100, 1040, 4000}
SrcHeights == (1..MaxTinyDim) \cup {50, 100, 3000}

\* what the stored bytes are: an image of a format and size, corrupt or not
Objects ==
  [format : {"jpeg", "png"}, corrupt : {FALSE}, w : SrcWidths, h : SrcHeights]
  \cup [format : {"jpeg", "png", "gif", "text"}, corrupt : {TRUE}, w : {1}, h : {1}]
  \cup [format : {"gif"}, corrupt : {FALSE}, w : {1}, h : {1}]

\* answers of s3Client.GetObject and of reading its body
GetOutcomes ==
  [err : {"NoSuchKey", "AccessDenied"}, contentLength : {Nil}, bodyLen : {0},
   readErr : {FALSE}, object : {CHOOSE o \in Objects : TRUE}]
  \cup [err : {""}, contentLength : {Nil, maxBytes, maxBytes + 1},
        bodyLen : {maxBytes, maxBytes + 1, maxBytes + 2},
        readErr : {TRUE}, object : {CHOOSE o \in Objects : TRUE}]
  \cup [err : {""}, contentLength : {Nil, maxBytes, maxBytes + 1},
        bodyLen : {maxBytes + 1, maxBytes + 2},
        readErr : {FALSE}, object : {CHOOSE o \in Objects : TRUE}]
  \cup [err : {""}, contentLength : {Nil, maxBytes, maxBytes + 1},
        bodyLen : {maxBytes}, readErr : {FALSE}, object : Objects]

\* sizes an encoder may produce
EncSizes == (maxBytes - SizeSlack)..(maxBytes + SizeSlack)

\* -------------------------------------------------------------- state

VARIABLES
  pc,          \* where handler is: start, fetch, decode, plan, encode, shrink, respond, done
  query,       \* handler: query, the values of w and h
  width,       \* handler: width
  height,      \* handler: height
  srcKeyBase,  \* handler: srcKeyBase
  getOut,      \* the answer of GetObject seen by fetchOriginalFromS3
  err,         \* handler: err, as its message ("" for nil)
  format,      \* handler: format
  srcW, srcH,  \* handler: srcW, srcH
  targetW, targetH,  \* handler: targetW, targetH
  imgW, imgH,  \* bounds of img inside encodeJPEGConstrained / encodePNGConstrained
  qi,          \* index in the ladder of the next encode
  param,       \* the q / lvl of the latest encode
  buf,         \* buf.Len() of the latest encode
  out,         \* handler: out, outCT
  deliveries,  \* the calls of writeGetObjectResponse, in order
  returned,    \* the error handler returned: "pending", "nil" or "error"
  fetches,     \* calls of s3Client.GetObject
  decodes,     \* calls of image.Decode
  resizes,     \* calls of resize
  encodes      \* calls of jpeg.Encode / png.Encoder.Encode

vars ==
  <<pc, query, width, height, srcKeyBase, getOut, err, format, srcW, srcH, targetW,
    targetH, imgW, imgH, qi, param, buf, out, deliveries, returned, fetches,
    decodes, resizes, encodes>>

NoGetOut ==
  [err |-> "", contentLength |-> Nil, bodyLen |-> 0, readErr |-> FALSE,
   object |-> [format |-> "", corrupt |-> FALSE, w |-> 0, h |-> 0]]

NoQuery == [w |-> <<>>, h |-> <<>>]

NoOut == [len |-> 0, contentType |-> ""]

Init ==
  /\ pc = "start"
  /\ query = NoQuery
  /\ width = 0 /\ height = 0
  /\ srcKeyBase = <<>>
  /\ getOut = NoGetOut
  /\ err = ""
  /\ format = ""
  /\ srcW = 0 /\ srcH = 0
  /\ targetW = 0 /\ targetH = 0
  /\ imgW = 0 /\ imgH = 0
  /\ qi = 0
  /\ param = 0
  /\ buf = 0
  /\ out = NoOut
  /\ deliveries = <<>>
  /\ returned = "pending"
  /\ fetches = 0 /\ decodes = 0 /\ resizes = 0 /\ encodes = 0

\* ---------------------------------------------------------- deliveries

\* one call of writeGetObjectResponse; accepted is the collaborator's answer
Delivery(code, contentType, msg, len, w, h, accepted) ==
  [status |-> code, contentType |-> contentType, msg |-> msg, len |-> len,
   w |-> w, h |-> h, accepted |-> accepted]

\* writeError returning nil after writing the diagnostic
WriteErrorSwallowed(code, msg, accepted) ==
  /\ deliveries' = Append(deliveries, Delivery(code, "text/plain", msg, 0, 0, 0, accepted))
  /\ returned' = "nil"
  /\ pc' = "done"

\* return nil, writeError(ctx, ev, code, msg): the diagnostic is written, the
\* answer of the write is dropped, errors.New(msg) is returned
WriteError(code, msg, accepted) ==
  /\ deliveries' = Append(deliveries, Delivery(code, "text/plain", msg, 0, 0, 0, accepted))
  /\ returned' = "error"
  /\ pc' = "done"


\* ------------------------------------------------------------- actions

\* handler, lines 58-89: parse the URL, validate w, default h, take the key;
\* err is assigned by url.Parse and by the Atoi of w, not by the Atoi of h
ParseRequest ==
  /\ pc = "start"
  /\ \E u \in URLs, accepted \in BOOLEAN :
       LET w   == Atoi(u.w)
           h   == Atoi(u.h)
           key == TrimPrefix(u.path)
       IN  IF u.parseErr
           THEN /\ err' = "url.Parse error"
                /\ WriteError(StatusBadRequest, "invalid request URL", accepted)
                /\ UNCHANGED <<query, width, height, srcKeyBase>>
           ELSE IF WidthRejected(w)
           THEN /\ err' = w.err
                /\ WriteError(StatusBadRequest, "width must be one of 240,300,460,700,1040", accepted)
                /\ query' = [w |-> u.w, h |-> u.h]
                /\ width' = w.val
                /\ UNCHANGED <<height, srcKeyBase>>
           ELSE /\ err' = w.err
                /\ query' = [w |-> u.w, h |-> u.h]
                /\ width' = w.val
                /\ height' = DefaultHeight(h.val, w.val)
                /\ srcKeyBase' = key
                /\ IF key = <<>>
                   THEN WriteError(StatusBadRequest, "empty path", accepted)
                   ELSE /\ pc' = "fetch"
                        /\ UNCHANGED <<deliveries, returned>>
  /\ UNCHANGED <<getOut, format, srcW, srcH, targetW, targetH, imgW, imgH,
                 qi, param, buf, out, fetches, decodes, resizes, encodes>>

\* handler, lines 91-99, with fetchOriginalFromS3
Fetch ==
  /\ pc = "fetch"
  /\ \E g \in GetOutcomes, accepted \in BOOLEAN :
       /\ getOut' = g
       /\ fetches' = fetches + 1
       /\ err' = FetchError(g)
       /\ IF FetchError(g) # ""
          THEN LET msg == IF FetchError(g) = "NoSuchKey"
                          THEN "base image not found"
                          ELSE "failed to fetch original"
               IN  WriteError(FetchStatus(FetchError(g)), msg, accepted)
          ELSE /\ pc' = "decode"
               /\ UNCHANGED <<deliveries, returned>>
  /\ UNCHANGED <<param, buf, query, width, height, srcKeyBase, format, srcW, srcH, targetW, targetH,
                 imgW, imgH, qi, out, decodes, resizes, encodes>>

\* handler, lines 101-108: image.Decode, the format name, the source size
Decode ==
  /\ pc = "decode"
  /\ decodes' = decodes + 1
  /\ \E accepted \in BOOLEAN :
       IF DecodeFails(getOut.object)
       THEN /\ err' = DecodeError(getOut.object)
            /\ format' = DecodeFormat(getOut.object)
            /\ WriteError(StatusUnsupportedMediaType, "decode error (jpeg/png only)", accepted)
            /\ UNCHANGED <<srcW, srcH>>
       ELSE /\ format' = ToLower(DecodeFormat(getOut.object))
            /\ srcW' = getOut.object.w
            /\ srcH' = getOut.object.h
            /\ pc' = "plan"
            /\ UNCHANGED <<err, deliveries, returned>>
  /\ UNCHANGED <<param, buf, query, width, height, srcKeyBase, getOut, targetW, targetH, imgW, imgH,
                 qi, out, fetches, resizes, encodes>>

\* handler, lines 109-140: the target size, the first resize, the choice of
\* the encoder
Plan ==
  /\ pc = "plan"
  /\ LET t == PlanGeometry(width, height, srcW, srcH)
     IN  /\ targetW' = t[1]
         /\ targetH' = t[2]
         /\ \E accepted \in BOOLEAN :
              IF InvalidSize(t[1], t[2])
              THEN /\ WriteError(StatusBadRequest, "calculated size invalid", accepted)
                   /\ UNCHANGED <<imgW, imgH, resizes, qi, err>>
              ELSE /\ imgW' = t[1]
                   /\ imgH' = t[2]
                   /\ resizes' = resizes + 1
                   /\ IF EncoderOf(format) = "unsupported"
                      THEN /\ err' = "unsupported format"
                           /\ WriteError(StatusInternalServerError, "encode error", accepted)
                           /\ UNCHANGED qi
                      ELSE /\ qi' = 1
                           /\ pc' = "encode"
                           /\ UNCHANGED <<err, deliveries, returned>>
  /\ UNCHANGED <<param, buf, query, width, height, srcKeyBase, getOut, format, srcW, srcH, out,
                 fetches, decodes, encodes>>

\* one pass of the inner loop of encodeJPEGConstrained / encodePNGConstrained:
\* encode with the parameter at qi; return the bytes if they fit
EncodeStep ==
  /\ pc = "encode"
  /\ \E size \in EncSizes :
       /\ encodes' = encodes + 1
       /\ param' = Ladder(EncoderOf(format))[qi]
       /\ buf' = size
       /\ IF Fits(size)
          THEN /\ out' = [len |-> size, contentType |-> ContentTypeOf(EncoderOf(format))]
               /\ pc' = "respond"
               /\ UNCHANGED qi
          ELSE /\ IF qi < Len(Ladder(EncoderOf(format)))
                  THEN qi' = qi + 1 /\ pc' = "encode"
                  ELSE qi' = qi /\ pc' = "shrink"
               /\ UNCHANGED out
  /\ UNCHANGED <<query, width, height, srcKeyBase, getOut, err, format, srcW, srcH,
                 targetW, targetH, imgW, imgH, deliveries, returned, fetches,
                 decodes, resizes>>

\* the tail of the outer loop: both dimensions times 0.9, the floor, resize
Downscale ==
  /\ pc = "shrink"
  /\ LET nw == ShrinkDim(imgW)
         nh == ShrinkDim(imgH)
     IN  \E accepted \in BOOLEAN :
           IF BelowFloor(nw, nh)
           THEN /\ err' = "cannot satisfy 10MB limit"
                /\ WriteError(StatusInternalServerError, "encode error", accepted)
                /\ UNCHANGED <<imgW, imgH, resizes, qi>>
           ELSE /\ imgW' = nw
                /\ imgH' = nh
                /\ resizes' = resizes + 1
                /\ qi' = 1
                /\ pc' = "encode"
                /\ UNCHANGED <<err, deliveries, returned>>
  /\ UNCHANGED <<param, buf, query, width, height, srcKeyBase, getOut, format, srcW, srcH, targetW,
                 targetH, out, fetches, decodes, encodes>>

\* handler, lines 145-151: the artifact is written; a rejected write is returned
Respond ==
  /\ pc = "respond"
  /\ \E accepted \in BOOLEAN :
       /\ deliveries' = Append(deliveries,
            Delivery(StatusOK, out.contentType, "", out.len, imgW, imgH, accepted))
       /\ returned' = IF accepted THEN "nil" ELSE "error"
  /\ pc' = "done"
  /\ UNCHANGED <<param, buf, query, width, height, srcKeyBase, getOut, err, format, srcW, srcH,
                 targetW, targetH, imgW, imgH, qi, out, fetches, decodes,
                 resizes, encodes>>

Next ==
  \/ ParseRequest
  \/ Fetch
  \/ Decode
  \/ Plan
  \/ EncodeStep
  \/ Downscale
  \/ Respond

Spec == Init /\ [][Next]_vars

\* handler runs to its return: no step waits for anything but its own turn
FairSpec == Spec /\ WF_vars(Next)


\* ------------------------------------------------------- shared notions

\* the request carried no usable height: h absent, 0 or not a number
NoHeight == Atoi(query.h).val = 0

\* the target size has been computed
Planned == srcW > 0 /\ pc # "plan"

\* handler has returned
Done == pc = "done"

\* the deliveries made with a given status
Delivered(code) == {i \in 1..Len(deliveries) : deliveries[i].status = code}

\* ---------------------------------------------------------------- C1

\* C1: once the resize step is reached the target size is at least 1x1 and
\* no larger than the source in either dimension, and every artifact
\* delivered with status 200 is no larger than the source either.
NeverUpscales ==
  /\ resizes >= 1 =>
       /\ 1 <= targetW /\ targetW <= srcW
       /\ 1 <= targetH /\ targetH <= srcH
  /\ \A i \in Delivered(StatusOK) :
       /\ 1 <= deliveries[i].w /\ deliveries[i].w <= srcW
       /\ 1 <= deliveries[i].h /\ deliveries[i].h <= srcH

\* a request wider and taller than the source, served after a downscale
NeverUpscalesWitness ==
  /\ width > srcW /\ height > srcH /\ srcW > MinDim /\ srcH > MinDim
  /\ \E i \in Delivered(StatusOK) :
       deliveries[i].accepted /\ deliveries[i].w < targetW

\* ---------------------------------------------------------------- C2

\* C2 as claimed: with no height the plan is targetW = min(requestedW,
\* sourceW) and targetH = round(sourceH * targetW / sourceW).
AspectPreservedWidthOnly ==
  (Planned /\ NoHeight) =>
     /\ targetW = Min(width, srcW)
     /\ targetH = RoundDiv(srcH * targetW, srcW)

\* C2 as amended: with no height the requested height is the requested
\* width, a square box.  The planned height is min(requestedW, sourceW,
\* sourceH), the planned width is at most min(requestedW, sourceW), and the
\* plan is square unless both clamps fire (sourceH < sourceW < requestedW).
NoHeightPlansSquareBox ==
  (Planned /\ NoHeight) =>
     /\ height = width
     /\ targetH = Min(width, Min(srcW, srcH))
     /\ targetW <= Min(width, srcW)
     /\ ~(srcH < srcW /\ srcW < width) => targetW = targetH

\* a 4000x3000 source requested at width 1040 is planned as 1040x1040
NoHeightPlansSquareBoxWitness ==
  /\ Planned /\ NoHeight
  /\ srcW = 4000 /\ srcH = 3000 /\ width = 1040
  /\ targetW = 1040 /\ targetH = 1040

\* ---------------------------------------------------------------- C3

\* C3: a body delivered with status 200 is at most maxBytes long, and when
\* the operation fails nothing but a text/plain diagnostic is delivered.
ByteBudget ==
  /\ \A i \in Delivered(StatusOK) : deliveries[i].len <= maxBytes
  /\ returned = "error" =>
       \A i \in 1..Len(deliveries) :
          deliveries[i].accepted => deliveries[i].contentType = "text/plain"

\* an artifact of exactly maxBytes delivered after over-budget encodes and a
\* downscale
ByteBudgetWitness ==
  /\ resizes >= 2 /\ returned = "nil"
  /\ \E i \in Delivered(StatusOK) :
       deliveries[i].accepted /\ deliveries[i].len = maxBytes

\* ---------------------------------------------------------------- C4

\* C4: the content type of a 200 response is that of the format detected
\* when the source was decoded.
FormatPreserved ==
  \A i \in Delivered(StatusOK) :
     \/ /\ ToLower(getOut.object.format) = "jpeg"
        /\ format = "jpeg"
        /\ deliveries[i].contentType = "image/jpeg"
     \/ /\ ToLower(getOut.object.format) = "png"
        /\ format = "png"
        /\ deliveries[i].contentType = "image/png"

\* a PNG served as image/png after downscale retries
FormatPreservedWitness ==
  /\ resizes >= 3 /\ format = "png"
  /\ \E i \in Delivered(StatusOK) : deliveries[i].contentType = "image/png"


\* ---------------------------------------------------------------- C5

\* Natural numbers too large for a machine word, as sequences of digits in
\* base 10000, least significant first.
Base == 100 * 100

\* the digits of n * m + carry, for a small factor m
RECURSIVE MulSmall(_, _, _)
MulSmall(n, m, carry) ==
  IF n = <<>>
  THEN IF carry = 0 THEN <<>> ELSE <<carry % Base>> \o MulSmall(<<>>, m, carry \div Base)
  ELSE LET p == n[1] * m + carry
       IN  <<p % Base>> \o MulSmall(Tail(n), m, p \div Base)

\* a <= b for two such numbers without leading zeros
RECURSIVE LeqFromTop(_, _, _)
LeqFromTop(a, b, i) ==
  IF i = 0 THEN TRUE
  ELSE IF a[i] # b[i] THEN a[i] < b[i]
  ELSE LeqFromTop(a, b, i - 1)

Leq(a, b) ==
  IF Len(a) # Len(b) THEN Len(a) < Len(b) ELSE LeqFromTop(a, b, Len(a))

\* the least k >= 0 with a * 9^k <= b * 10^k
RECURSIVE LeastPower(_, _, _)
LeastPower(a, b, k) ==
  IF Leq(a, b) THEN k ELSE LeastPower(MulSmall(a, 9, 0), MulSmall(b, 10, 0), k + 1)

\* ceil(log_0.9(32 / d)), and 0 when d <= 32: the least k with d * 0.9^k <= 32
RetryBound(d) == LeastPower(MulSmall(<<d>>, 1, 0), MulSmall(<<MinDim>>, 1, 0), 0)

\* the downscale retries made so far
Retries == IF resizes = 0 THEN 0 ELSE resizes - 1

\* C5: the retry loop ends, in a response or in the 'cannot satisfy 10MB
\* limit' failure, whatever sizes the encoder produces, and it makes at most
\* ceil(log_0.9(32 / initialDim)) downscale retries, initialDim being the
\* smaller dimension of the initial target.
RetryTermination ==
  /\ [](pc \in {"encode", "shrink"} =>
          Retries <= RetryBound(Min(targetW, targetH)))
  /\ (pc = "encode") ~>
        (pc = "respond" \/ (Done /\ err = "cannot satisfy 10MB limit"))

\* the floor reached after retries, from a target above the floor
RetryTerminationWitness ==
  /\ Done /\ err = "cannot satisfy 10MB limit"
  /\ Min(targetW, targetH) > MinDim
  /\ Retries >= 1
  /\ Retries + 1 = RetryBound(Min(targetW, targetH))

\* ---------------------------------------------------------------- C6

\* the key handler would fetch is empty
EmptyKey == srcKeyBase = <<>>

\* w is missing, not a number or not one of the allowed widths
InvalidWidthRequested ==
  LET w == Atoi(query.w) IN w.err # "" \/ w.val \notin {240, 300, 460, 700, 1040}

\* C6: when w is missing, not a number or not an allowed width, or when the
\* key is empty, no GetObject is ever made and the one response is a 400.
FailFast ==
  (InvalidWidthRequested \/ EmptyKey) =>
     /\ fetches = 0
     /\ Done => /\ Delivered(StatusBadRequest) = {1}
                /\ returned = "error"

\* width 999 rejected without a fetch
FailFastWitness ==
  /\ Done /\ query.w = <<"9", "9", "9">>
  /\ fetches = 0
  /\ Delivered(StatusBadRequest) = {1}

\* ---------------------------------------------------------------- C7

\* C7: an operation makes exactly one delivery attempt, none before it
\* ends; every failure returns an error, a rejected final write included,
\* and nil is returned exactly when the 200 response was accepted.
ExactlyOneDelivery ==
  /\ ~Done => Len(deliveries) = 0 /\ returned = "pending"
  /\ Done =>
       /\ Len(deliveries) = 1
       /\ returned \in {"nil", "error"}
       /\ returned = "nil" <=>
            (deliveries[1].status = StatusOK /\ deliveries[1].accepted)

\* the final write rejected: one delivery, an error returned
ExactlyOneDeliveryWitness ==
  /\ Done /\ Len(deliveries) = 1
  /\ deliveries[1].status = StatusOK /\ ~deliveries[1].accepted
  /\ returned = "error"

\* ---------------------------------------------------------------- C8

\* the source as stored or as read exceeds the budget
SourceTooLarge ==
  \/ getOut.contentLength # Nil /\ getOut.contentLength > maxBytes
  \/ getOut.bodyLen > maxBytes

\* the fetch failed for a reason other than a missing key
UpstreamFailure ==
  /\ fetches = 1
  /\ \/ getOut.err \notin {"", "NoSuchKey"}
     \/ getOut.err = "" /\ (SourceTooLarge \/ getOut.readErr)

\* the stored bytes do not decode as JPEG or PNG
UnsupportedFormat ==
  /\ decodes = 1
  /\ (ToLower(getOut.object.format) \notin {"jpeg", "png"} \/ getOut.object.corrupt)

\* the planner computed a non-positive dimension
InvalidDimensions == Planned /\ (targetW <= 0 \/ targetH <= 0)

\* the encoders ran and no artifact came out
BudgetUnsatisfiable == Done /\ encodes > 0 /\ Delivered(StatusOK) = {}

\* C8: the status of a failure is fixed by its kind, and each of 404, 502,
\* 415 and 500 is delivered for its own kind only; the fetch failures come
\* before any decode, the invalid size before any resize or encode.
StatusByFailureKind ==
  Done =>
    /\ (fetches = 1 /\ getOut.err = "NoSuchKey") <=> Delivered(StatusNotFound) = {1}
    /\ UpstreamFailure <=> Delivered(StatusBadGateway) = {1}
    /\ UpstreamFailure => decodes = 0
    /\ UnsupportedFormat <=> Delivered(StatusUnsupportedMediaType) = {1}
    /\ InvalidDimensions => Delivered(StatusBadRequest) = {1} /\ resizes = 0 /\ encodes = 0
    /\ BudgetUnsatisfiable <=> Delivered(StatusInternalServerError) = {1}
    /\ BudgetUnsatisfiable => err = "cannot satisfy 10MB limit"
    /\ Delivered(StatusBadRequest) = {1} =>
         (fetches = 0 \/ InvalidDimensions)

\* a body longer than the budget behind no declared length: 502, no decode
StatusByFailureKindWitness ==
  /\ Done /\ getOut.contentLength = Nil /\ getOut.bodyLen > maxBytes
  /\ ~getOut.readErr
  /\ Delivered(StatusBadGateway) = {1} /\ decodes = 0


\* ---------------------------------------------------------------- C9

\* C9 as claimed: with a height requested and the width clamped, the height
\* becomes H1 = round(requestedH * sourceW / requestedW); if H1 exceeds
\* sourceH the plan is round(sourceW * sourceH / H1) by sourceH, which keeps
\* the requested aspect ratio.
TwoPassBoxClamp ==
  (Planned /\ ~NoHeight /\ height > 0 /\ width > srcW) =>
     LET H1 == RoundDiv(height * srcW, width)
     IN  IF H1 > srcH
         THEN targetH = srcH /\ targetW = RoundDiv(srcW * srcH, H1)
         ELSE targetH = H1 /\ targetW = srcW

\* ---------------------------------------------------------------- C10

\* C10: a retry shrinks the current working size to (floor(0.9 w),
\* floor(0.9 h)); if either is below 32 the operation fails with status 500
\* and no further resize or encode, otherwise the ladder restarts at exactly
\* that size.  Working dimensions strictly decrease and no encode runs at a
\* retried size with a dimension below 32.
DownscaleStepAndFloor ==
  /\ []((pc = "encode" /\ resizes >= 2) => (imgW >= 32 /\ imgH >= 32))
  /\ [][pc = "shrink" =>
          LET nw == (imgW * 9) \div 10
              nh == (imgH * 9) \div 10
          IN  IF nw < 32 \/ nh < 32
              THEN /\ pc' = "done"
                   /\ resizes' = resizes /\ encodes' = encodes
                   /\ Delivered(StatusInternalServerError)' = {1}
                   /\ returned' = "error"
              ELSE /\ pc' = "encode"
                   /\ imgW' = nw /\ imgH' = nh
                   /\ imgW' < imgW /\ imgH' < imgH
                   /\ resizes' = resizes + 1
                   /\ qi' = 1]_vars
  /\ [][pc = "encode" => (imgW' = imgW /\ imgH' = imgH /\ resizes' = resizes)]_vars

\* the third retry, whose size is 0.9 of the second's and differs from 0.729
\* of the target
DownscaleStepAndFloorWitness ==
  /\ pc = "encode" /\ resizes = 4 /\ qi = 1
  /\ imgW = (((((targetW * 9) \div 10) * 9) \div 10) * 9) \div 10
  /\ imgW # (targetW * 729) \div 1000


\* ---------------------------------------------------------------- C11

\* the order in which the parameters are to be tried, by decoded format
FixedOrder ==
  IF format = "jpeg"
  THEN <<95, 90, 85, 80, 75, 70, 65, 60>>
  ELSE <<"DefaultCompression", "BestCompression">>

\* C11: at each working size the parameters are tried in the fixed order of
\* the format; the first encode of at most maxBytes is the artifact returned
\* and nothing is encoded or resized after it; an over-budget encode returns
\* nothing; the size is shrunk only when every parameter of the ladder has
\* given an over-budget result at the current size.
LadderFirstFit ==
  /\ [][encodes' # encodes =>
          /\ encodes' = encodes + 1
          /\ resizes' = resizes /\ imgW' = imgW /\ imgH' = imgH
          /\ encodes \div Len(FixedOrder) = resizes - 1
          /\ param' = FixedOrder[(encodes % Len(FixedOrder)) + 1]
          /\ IF buf' <= maxBytes
             THEN /\ pc' = "respond"
                  /\ out'.len = buf'
             ELSE /\ pc' \in {"encode", "shrink"}
                  /\ out' = out
                  /\ pc' = "shrink" <=> param' = FixedOrder[Len(FixedOrder)]]_vars
  /\ [][(pc = "respond" \/ pc = "done") =>
          /\ encodes' = encodes /\ resizes' = resizes
          /\ param' = param /\ out' = out]_vars
  /\ [][(resizes >= 1 /\ resizes' # resizes) =>
          /\ encodes = Len(FixedOrder) * resizes
          /\ buf > maxBytes
          /\ encodes' = encodes]_vars
  /\ [](pc = "respond" => (out.len = buf /\ buf <= maxBytes))

\* quality 85 returned at the second working size: 95 and 90 were over
\* budget there, and the whole ladder at the first size
LadderFirstFitWitness ==
  /\ pc = "respond" /\ format = "jpeg"
  /\ resizes = 2 /\ encodes = 11
  /\ param = 85 /\ out.len = buf /\ buf = maxBytes

====
